---- MODULE Spec2Model ----
(***************************************************************************)
(* A model of the communications core of ax-devil-device-api: the          *)
(* connection descriptor (core/config.py), the error taxonomy              *)
(* (utils/errors.py), the response wrapper (core/types.py), the client     *)
(* facade with its session operations (client.py) and the request          *)
(* pipeline (core/client.py, core/protocol.py).                            *)
(*                                                                         *)
(* Python values: None is the empty tuple, any other optional value x is   *)
(* the one-element tuple <<x>>.  An exception is a record whose field exc  *)
(* is the class name; only AxisError subclasses carry code and message.    *)
(***************************************************************************)
EXTENDS Integers, Sequences, FiniteSets, TLC

VARIABLES
  \* connection descriptor construction
  cfgCall, cfgResult,
  \* response wrapper construction
  respCall, respResult,
  \* client facade and session layer
  session, sessOpen, closed, closedAgain, cleared, nextId, pc, saved, req,
  \* request pipeline
  cfg, server, authCache, rpc, hdrTable, hdrs, reqOut, netlog,
  \* requests of several threads on one client's auth state
  threadReq

cfgVars  == <<cfgCall, cfgResult>>
respVars == <<respCall, respResult>>
sessVars == <<session, sessOpen, closed, closedAgain, cleared, nextId, pc, saved, req>>
reqVars  == <<cfg, server, authCache, rpc, hdrTable, hdrs, reqOut, netlog, threadReq>>
vars     == <<cfgVars, respVars, sessVars, reqVars>>

None == << >>
Some(x) == <<x>>

(***************************************************************************)
(* utils/errors.py                                                         *)
(***************************************************************************)

\* A Python call that binds too few positional arguments raises TypeError.
TypeErrorExc == [exc |-> "TypeError"]

\* AxisError.__init__(self, code, message, details=None): two required
\* positional arguments; details defaults to the empty map.
AxisError(cls, args) ==
  IF Len(args) < 2
    THEN TypeErrorExc
    ELSE [exc |-> cls, code |-> args[1], message |-> args[2],
          details |-> IF Len(args) >= 3 THEN args[3] ELSE << >>]

\* AuthenticationError, ConfigurationError and FeatureError inherit
\* AxisError.__init__ unchanged.
AuthenticationError(args) == AxisError("AuthenticationError", args)
ConfigurationError(args) == AxisError("ConfigurationError", args)
FeatureError(args) == AxisError("FeatureError", args)

\* NetworkError.__init__(self, code, message=None) forwards (code, message).
NetworkError(args) ==
  IF Len(args) < 1
    THEN TypeErrorExc
    ELSE AxisError("NetworkError",
                   <<args[1], IF Len(args) >= 2 THEN args[2] ELSE None>>)

\* SecurityError.__init__(self, code, message=None, details=None): a missing
\* message is looked up by code.
SecurityDefaultMessage(code) ==
  CASE code = "ssl_verification_failed" -> "SSL certificate verification failed"
    [] code = "ssl_error" -> "SSL error occurred"
    [] code = "cert_fingerprint_mismatch" -> "Certificate fingerprint mismatch"
    [] code = "protocol_error" -> "Protocol security error"
    [] OTHER -> "Security error"

SecurityError(args) ==
  IF Len(args) < 1
    THEN TypeErrorExc
    ELSE AxisError("SecurityError",
                   <<args[1],
                     IF Len(args) >= 2 THEN args[2] ELSE SecurityDefaultMessage(args[1]),
                     IF Len(args) >= 3 THEN args[3] ELSE << >>>>)

IsAxisError(e) ==
  e.exc \in {"AuthenticationError", "ConfigurationError", "NetworkError",
             "SecurityError", "FeatureError"}

(***************************************************************************)
(* core/config.py                                                          *)
(***************************************************************************)

Protocols == {"https", "http"}
AuthMethods == {"auto", "basic", "digest"}

HttpsPort == 443
HttpPort == 80
PortLimit == 65536

\* Protocol.default_port
default_port(protocol) == IF protocol = "https" THEN HttpsPort ELSE HttpPort

\* Protocol.is_secure
is_secure(protocol) == protocol = "https"

\* SSLConfig(verify=True, ca_cert_path=None, client_cert_path=None,
\*           client_key_path=None, expected_fingerprint=None)
SSLConfig(verify, ca, cert, key, fp) ==
  [verify |-> verify, ca_cert_path |-> ca, client_cert_path |-> cert,
   client_key_path |-> key, expected_fingerprint |-> fp]

SSLConfigDefault == SSLConfig(TRUE, None, None, None, None)

Raised(e) == [tag |-> "raised", exc |-> e]
Built(c) == [tag |-> "ok", config |-> c]

\* CameraConfig.__post_init__ on the dataclass fields: the port default, the
\* TLS default, the port range check, then the HTTP check, in that order.
\* Both raise statements call ConfigurationError with one positional argument.
PostInit(protocol, port, auth_method, ssl, allow_insecure) ==
  LET port1 == IF port = None THEN Some(default_port(protocol)) ELSE port
      ssl1 == IF ssl = None /\ is_secure(protocol) THEN Some(SSLConfigDefault) ELSE ssl
  IN IF port1 # None /\ ~(0 < port1[1] /\ port1[1] < PortLimit)
       THEN Raised(ConfigurationError(<<<<"Invalid port number: ", port1[1]>>>>))
       ELSE IF protocol = "http" /\ ~allow_insecure
         THEN Raised(ConfigurationError(<<"HTTP protocol requested but allow_insecure=False">>))
         ELSE Built([protocol |-> protocol, port |-> port1, auth_method |-> auth_method,
                     ssl |-> ssl1, allow_insecure |-> allow_insecure])

\* CameraConfig.http(host, username, password, port=None)
ConfigHttp(port) == PostInit("http", port, "auto", None, TRUE)

\* CameraConfig.https(host, username, password, *, verify_ssl=True, port=None,
\*                    ca_cert=None, cert_fingerprint=None, client_cert=None,
\*                    client_key=None)
ConfigHttps(verify_ssl, port, ca_cert, cert_fingerprint, client_cert, client_key) ==
  PostInit("https", port, "auto",
           Some(SSLConfig(verify_ssl, ca_cert, client_cert, client_key, cert_fingerprint)),
           FALSE)

\* CameraConfig.https(host, username, password): every option at its default
ConfigHttpsDefault == ConfigHttps(TRUE, None, None, None, None, None)

\* CameraConfig.get_base_url: the port segment is left out for 80 and 443.
get_base_url(c) ==
  <<c.protocol, "://", "host",
    IF c.port[1] \notin {HttpPort, HttpsPort} THEN Some(c.port[1]) ELSE None>>

(***************************************************************************)
(* core/types.py                                                           *)
(***************************************************************************)

ValueErrorExc == [exc |-> "ValueError"]

\* The constructor without the check of __post_init__.
FeatureResponse_Unchecked(data, error) ==
  [tag |-> "ok", obj |-> [data |-> data, error |-> error]]

\* FeatureResponse(_data=None, _error=None) with __post_init__: both fields
\* populated is refused, anything else is stored as given.
FeatureResponse(data, error) ==
  IF data # None /\ error # None
    THEN Raised(ValueErrorExc)
    ELSE [tag |-> "ok", obj |-> [data |-> data, error |-> error]]

\* FeatureResponse.ok(data) is cls(_data=data)
FeatureResponse_ok(data) == FeatureResponse(data, None)

\* FeatureResponse.create_error(error) is cls(_error=error)
FeatureResponse_create_error(error) == FeatureResponse(None, error)

\* FeatureResponse.is_success
is_success(obj) == obj.error = None

(***************************************************************************)
(* Inputs                                                                  *)
(***************************************************************************)

MaxData == 3

PortInputs ==
  {None} \cup {Some(p) : p \in {-1, 0, 1, HttpPort, HttpsPort, 8080,
                                 PortLimit - 1, PortLimit}}

\* "SHA256:ab12" stands for the fingerprint get_cert_fingerprint computes for
\* the server's certificate, "SHA256:AB12" for the same digits in upper case,
\* "SHA256:cd34" for another certificate's.
FingerprintInputs == {None, Some("SHA256:ab12"), Some("SHA256:AB12"), Some("SHA256:cd34")}

SSLInputs ==
  {None} \cup
  {Some(SSLConfig(v, ca, cert, key, fp)) :
     v \in BOOLEAN, ca \in {None, Some("ca.pem")},
     cert \in {None, Some("client.pem")}, key \in {None, Some("client.key")},
     fp \in FingerprintInputs}

DataInputs == {None} \cup {Some(d) : d \in 0..MaxData}

ErrorInputs ==
  {None} \cup
  {Some(NetworkError(<<c, "m">>)) :
     c \in {"request_timeout", "connection_refused", "connection_error", "request_failed"}} \cup
  {Some(SecurityError(<<c>>)) :
     c \in {"ssl_error", "ssl_verification_failed", "cert_fingerprint_mismatch", "protocol_error"}} \cup
  {Some(AuthenticationError(<<"authentication_failed", "m">>))} \cup
  {Some(ConfigurationError(<<c, "m">>)) : c \in {"invalid_port", "http_protocol_requested"}} \cup
  {Some(FeatureError(<<c, "m">>)) :
     c \in {"username_required", "invalid_response_format", "failed_to_parse_response",
            "username_password_required"}}

(***************************************************************************)
(* Idle values of the variables a specification does not use               *)
(***************************************************************************)

NoCfgCall ==
  [ctor |-> "none", protocol |-> "https", port |-> None, auth_method |-> "auto",
   ssl |-> None, allow_insecure |-> FALSE]
NoResult == [tag |-> "none"]
NoRespCall == [ctor |-> "none", data |-> None, error |-> None]

CfgIdle == cfgCall = NoCfgCall /\ cfgResult = NoResult
RespIdle == respCall = NoRespCall /\ respResult = NoResult
SessIdle ==
  /\ session = 0 /\ sessOpen = << >> /\ closed = FALSE /\ closedAgain = FALSE
  /\ cleared = None /\ nextId = 0
  /\ pc = << >> /\ saved = << >> /\ req = << >>
ReqIdle ==
  /\ cfg = None /\ server = None /\ authCache = None /\ rpc = "idle"
  /\ hdrTable = << >> /\ hdrs = << >> /\ reqOut = NoResult /\ netlog = << >>
  /\ threadReq = << >>

(***************************************************************************)
(* Constructing connection descriptors: one construction per behaviour     *)
(***************************************************************************)

\* CameraConfig(host, username, password, protocol=..., port=..., ...)
CallConfig ==
  \E protocol \in Protocols, port \in PortInputs, auth \in AuthMethods,
     ssl \in SSLInputs, allow \in BOOLEAN :
    /\ cfgCall = NoCfgCall
    /\ cfgCall' = [ctor |-> "init", protocol |-> protocol, port |-> port,
                   auth_method |-> auth, ssl |-> ssl, allow_insecure |-> allow]
    /\ cfgResult' = PostInit(protocol, port, auth, ssl, allow)
    /\ UNCHANGED <<respVars, sessVars, reqVars>>

\* CameraConfig.http(...)
CallHttp ==
  \E port \in PortInputs :
    /\ cfgCall = NoCfgCall
    /\ cfgCall' = [ctor |-> "http", protocol |-> "http", port |-> port,
                   auth_method |-> "auto", ssl |-> None, allow_insecure |-> TRUE]
    /\ cfgResult' = ConfigHttp(port)
    /\ UNCHANGED <<respVars, sessVars, reqVars>>

\* CameraConfig.https(...)
CallHttps ==
  \E verify \in BOOLEAN, port \in PortInputs, ca \in {None, Some("ca.pem")},
     fp \in FingerprintInputs, cert \in {None, Some("client.pem")},
     key \in {None, Some("client.key")} :
    /\ cfgCall = NoCfgCall
    /\ cfgCall' = [ctor |-> "https", protocol |-> "https", port |-> port,
                   auth_method |-> "auto",
                   ssl |-> Some(SSLConfig(verify, ca, cert, key, fp)),
                   allow_insecure |-> FALSE]
    /\ cfgResult' = ConfigHttps(verify, port, ca, fp, cert, key)
    /\ UNCHANGED <<respVars, sessVars, reqVars>>

InitConfig == CfgIdle /\ RespIdle /\ SessIdle /\ ReqIdle

NextConfig == CallConfig \/ CallHttp \/ CallHttps

SpecConfig == InitConfig /\ [][NextConfig]_vars

PortInRange(p) == 0 < p /\ p < PortLimit

\* C9: a descriptor with protocol HTTP and no insecure-allowed flag fails with
\* ConfigurationError{http_protocol_requested}; the http named constructor
\* with a valid port succeeds.
C9_HttpNeedsFlag ==
  /\ (cfgCall.ctor # "none" /\ cfgCall.protocol = "http" /\ ~cfgCall.allow_insecure)
       => /\ cfgResult.tag = "raised"
          /\ cfgResult.exc.exc = "ConfigurationError"
          /\ cfgResult.exc.code = "http_protocol_requested"
  /\ (cfgCall.ctor = "http" /\ (cfgCall.port = None \/ PortInRange(cfgCall.port[1])))
       => cfgResult.tag = "ok"

\* C10: with an explicit port p and the other constraints satisfied,
\* construction succeeds iff 0 < p < 65536, and every failure is
\* ConfigurationError{invalid_port}.
C10_PortRange ==
  (/\ cfgCall.ctor # "none"
   /\ cfgCall.port # None
   /\ (cfgCall.protocol = "https" \/ cfgCall.allow_insecure))
    => /\ cfgResult.tag = "ok" <=> PortInRange(cfgCall.port[1])
       /\ cfgResult.tag = "raised"
            => /\ cfgResult.exc.exc = "ConfigurationError"
               /\ cfgResult.exc.code = "invalid_port"

\* C29: a descriptor whose construction succeeded, by the general
\* constructor or by a named one, has a TLS policy exactly when its
\* protocol is HTTPS.
C29_TlsPolicyIffHttps ==
  cfgResult.tag = "ok" =>
    (cfgResult.config.ssl # None <=> cfgResult.config.protocol = "https")

\* The port a client reaches at a base URL: the one in its port segment, or
\* the scheme's default when the URL has none.
AddressedPort(url) == IF url[4] # None THEN url[4][1] ELSE default_port(url[1])

\* C30: a descriptor built without a port has its protocol's canonical
\* port; the base URL of a descriptor leaves the port segment out exactly
\* when the port is the canonical port of the descriptor's protocol, and so
\* addresses the descriptor's port.
C30_BaseUrlAddressesPort ==
  cfgResult.tag = "ok" =>
    LET c == cfgResult.config
        url == get_base_url(c)
    IN /\ cfgCall.port = None => c.port = Some(default_port(c.protocol))
       /\ url[1] = c.protocol
       /\ url[4] = None <=> c.port[1] = default_port(c.protocol)
       /\ AddressedPort(url) = c.port[1]

(***************************************************************************)
(* Constructing response wrappers                                          *)
(***************************************************************************)

CallFeatureResponse ==
  \E data \in DataInputs, error \in ErrorInputs :
    /\ respCall' = [ctor |-> "init", data |-> data, error |-> error]
    /\ respResult' = FeatureResponse(data, error)
    /\ UNCHANGED <<cfgVars, sessVars, reqVars>>

CallOk ==
  \E data \in DataInputs :
    /\ respCall' = [ctor |-> "ok", data |-> data, error |-> None]
    /\ respResult' = FeatureResponse_ok(data)
    /\ UNCHANGED <<cfgVars, sessVars, reqVars>>

CallCreateError ==
  \E error \in ErrorInputs :
    /\ respCall' = [ctor |-> "create_error", data |-> None, error |-> error]
    /\ respResult' = FeatureResponse_create_error(error)
    /\ UNCHANGED <<cfgVars, sessVars, reqVars>>

InitResponse == CfgIdle /\ RespIdle /\ SessIdle /\ ReqIdle

NextResponse == CallFeatureResponse \/ CallOk \/ CallCreateError

SpecResponse == InitResponse /\ [][NextResponse]_vars

\* C8 as stated: every wrapper that can be constructed has exactly one of
\* data and error populated (both fails fast, neither cannot exist),
\* is_success = (error is null), data is null whenever error is non-null.
C8_ExactlyOne ==
  /\ (respCall.ctor # "none" /\ respCall.data # None /\ respCall.error # None)
       => respResult.tag = "raised"
  /\ respResult.tag = "ok"
       => /\ (respResult.obj.data # None) # (respResult.obj.error # None)
          /\ is_success(respResult.obj) <=> respResult.obj.error = None
          /\ respResult.obj.error # None => respResult.obj.data = None

\* C8 amended: never both (constructing both raises ValueError and yields no
\* wrapper), is_success = (error is null), data is null whenever error is
\* non-null; a wrapper with neither populated is constructible and is a
\* success, and whatever is constructed holds the arguments unchanged.
C8_AtMostOne ==
  /\ (respCall.ctor # "none" /\ respCall.data # None /\ respCall.error # None)
       => respResult = Raised(ValueErrorExc)
  /\ (respCall.ctor # "none" /\ (respCall.data = None \/ respCall.error = None))
       => /\ respResult.tag = "ok"
          /\ respResult.obj = [data |-> respCall.data, error |-> respCall.error]
  /\ respResult.tag = "ok"
       => /\ ~(respResult.obj.data # None /\ respResult.obj.error # None)
          /\ is_success(respResult.obj) <=> respResult.obj.error = None
          /\ respResult.obj.error # None => respResult.obj.data = None

C8_Witness ==
  /\ respCall.ctor = "ok" /\ respCall.data = None
  /\ respResult.tag = "ok"
  /\ respResult.obj.data = None /\ respResult.obj.error = None
  /\ is_success(respResult.obj)

(***************************************************************************)
(* client.py: the Client facade over the core's persistent session.        *)
(* The core class Client wraps (DeviceClient: _session, new_session,       *)
(* clear_session, request) is modelled from the specification's sections   *)
(* 3, 4.5 and 5; Client.close, Client.new_session, Client.clear_session    *)
(* and the feature accessors are modelled from client.py.                  *)
(*                                                                         *)
(* Sessions are numbered in creation order, 0 being the session made at    *)
(* construction.  sessOpen[i] tells whether session i is open.  saved[t]   *)
(* is the stack of the new_session() scopes thread t is inside: old is the *)
(* session the scope set aside, fresh the one it installed.  req[t] is the *)
(* request thread t has in flight: start is the session that was current   *)
(* when it began, used the sessions its network calls went out on (whose   *)
(* cookies the server saw).  closedAgain tells that close() was called on  *)
(* a closed client; cleared remembers the session the latest               *)
(* clear_session() installed and whether a new_session() scope was entered *)
(* or left since.                                                          *)
(***************************************************************************)

Threads == {"t1", "t2"}

MaxSessions == 3
MaxDepth == 2

\* The network calls one request can make on the session: the call itself
\* and, after an AUTO challenge, one reissue with credentials.
NetCalls == <<"call", "reissue">>

NoRequest == [start |-> 0, sess |-> 0, used |-> {}, calls |-> 0]

InitSession ==
  /\ session = 0
  /\ sessOpen = (0 :> TRUE)
  /\ closed = FALSE
  /\ closedAgain = FALSE
  /\ cleared = None
  /\ nextId = 1
  /\ pc = [t \in Threads |-> "idle"]
  /\ saved = [t \in Threads |-> << >>]
  /\ req = [t \in Threads |-> NoRequest]

\* A scope entered or left since the latest clear_session().
MarkSwap == IF cleared = None THEN None ELSE Some([cleared[1] EXCEPT !.swapped = TRUE])

\* A request that installs a session of its own.
CoreRequestStart_FreshSession(t) ==
  /\ nextId <= MaxSessions
  /\ session' = nextId
  /\ sessOpen' = sessOpen @@ (nextId :> TRUE)
  /\ nextId' = nextId + 1
  /\ req' = [req EXCEPT ![t] =
               [start |-> session, sess |-> nextId, used |-> {}, calls |-> 0]]

\* The core's request reads the current session pointer once, under the
\* session mutex, and dispatches every network call of the request on it.
CoreRequestStart(t) ==
  /\ req' = [req EXCEPT ![t] =
               [start |-> session, sess |-> session, used |-> {}, calls |-> 0]]
  /\ UNCHANGED <<session, sessOpen, nextId>>

\* client.device, client.network, ...: each accessor hands self._core to the
\* feature client, whose calls go to the core's request; Client._closed is
\* not consulted on the way.
RequestStart(t) ==
  /\ pc[t] = "idle"
  /\ CoreRequestStart(t)
  /\ pc' = [pc EXCEPT ![t] = "net"]
  /\ UNCHANGED <<closed, closedAgain, cleared, saved>>
  /\ UNCHANGED <<cfgVars, respVars, reqVars>>

\* A network call that reads the session pointer again.
NetCall_ReadsCurrent(t) ==
  /\ pc[t] = "net"
  /\ req[t].calls < Len(NetCalls)
  /\ req' = [req EXCEPT ![t].used = @ \cup {session}, ![t].calls = @ + 1]
  /\ UNCHANGED <<session, sessOpen, closed, closedAgain, cleared, nextId, pc, saved>>
  /\ UNCHANGED <<cfgVars, respVars, reqVars>>

\* One network call of a request in flight, on the session the request
\* started with; the server sees that session's cookie.
NetCall(t) ==
  /\ pc[t] = "net"
  /\ req[t].calls < Len(NetCalls)
  /\ req' = [req EXCEPT ![t].used = @ \cup {req[t].sess}, ![t].calls = @ + 1]
  /\ UNCHANGED <<session, sessOpen, closed, closedAgain, cleared, nextId, pc, saved>>
  /\ UNCHANGED <<cfgVars, respVars, reqVars>>

\* request() returns to its caller after its last network call.
Return(t) ==
  /\ pc[t] = "net"
  /\ req[t].calls >= 1
  /\ pc' = [pc EXCEPT ![t] = "idle"]
  /\ req' = [req EXCEPT ![t] = NoRequest]
  /\ UNCHANGED <<session, sessOpen, closed, closedAgain, cleared, nextId, saved>>
  /\ UNCHANGED <<cfgVars, respVars, reqVars>>

\* The core's new_session(), entering: the current session is set aside and
\* a fresh, empty one is installed in one atomic swap.
CoreEnterScope(t) ==
  /\ saved' = [saved EXCEPT ![t] = Append(@, [old |-> session, fresh |-> nextId])]
  /\ session' = nextId
  /\ sessOpen' = sessOpen @@ (nextId :> TRUE)
  /\ nextId' = nextId + 1

\* The core's new_session(), leaving (on every exit path): the throwaway
\* session is released and the session set aside at entry is current again.
CoreExitScope(t) ==
  LET frame == saved[t][Len(saved[t])]
  IN /\ session' = frame.old
     /\ sessOpen' = [sessOpen EXCEPT ![frame.fresh] = FALSE]
     /\ saved' = [saved EXCEPT ![t] = SubSeq(@, 1, Len(@) - 1)]

\* Client.new_session up to the yield: with self._core.new_session()
EnterScope(t) ==
  /\ pc[t] = "idle"
  /\ Len(saved[t]) < MaxDepth
  /\ nextId <= MaxSessions
  /\ CoreEnterScope(t)
  /\ cleared' = MarkSwap
  /\ UNCHANGED <<closed, closedAgain, pc, req>>
  /\ UNCHANGED <<cfgVars, respVars, reqVars>>

\* Leaving the block without the with statement: an exception raised in the
\* block skips the core's exit.
ExitScope_NoFinally(t) ==
  /\ saved[t] # << >>
  /\ \E raised \in BOOLEAN, propagates \in BOOLEAN :
       /\ pc[t] = "idle" \/ (pc[t] = "unwinding" /\ raised)
       /\ IF raised
            THEN /\ saved' = [saved EXCEPT ![t] = SubSeq(@, 1, Len(@) - 1)]
                 /\ UNCHANGED <<session, sessOpen>>
            ELSE CoreExitScope(t)
       /\ pc' = [pc EXCEPT ![t] =
                   IF raised /\ propagates /\ Len(saved[t]) > 1
                     THEN "unwinding" ELSE "idle"]
  /\ cleared' = MarkSwap
  /\ UNCHANGED <<closed, closedAgain, nextId, req>>
  /\ UNCHANGED <<cfgVars, respVars, reqVars>>

\* Client.new_session after the yield: the block ends normally, or it raised
\* and the exception is thrown into the generator at the yield; either way
\* the with statement runs the core's exit.  The exception then propagates
\* to the enclosing scope of the thread (unwinding) or is handled there.
ExitScope(t) ==
  /\ saved[t] # << >>
  /\ \E raised \in BOOLEAN, propagates \in BOOLEAN :
       /\ pc[t] = "idle" \/ (pc[t] = "unwinding" /\ raised)
       /\ CoreExitScope(t)
       /\ pc' = [pc EXCEPT ![t] =
                   IF raised /\ propagates /\ Len(saved[t]) > 1
                     THEN "unwinding" ELSE "idle"]
  /\ cleared' = MarkSwap
  /\ UNCHANGED <<closed, closedAgain, nextId, req>>
  /\ UNCHANGED <<cfgVars, respVars, reqVars>>

\* The core's clear_session(): the current session is discarded and replaced
\* by a fresh one in one atomic swap.
CoreClearSession ==
  /\ session' = nextId
  /\ sessOpen' = [sessOpen EXCEPT ![session] = FALSE] @@ (nextId :> TRUE)
  /\ nextId' = nextId + 1

\* clear_session() that does not reach the core's swap.
ClearSession_NotDelegated(t) ==
  /\ pc[t] = "idle"
  /\ nextId <= MaxSessions
  /\ cleared' = Some([id |-> session, swapped |-> FALSE])
  /\ nextId' = nextId + 1
  /\ UNCHANGED <<session, sessOpen, closed, closedAgain, pc, saved, req>>
  /\ UNCHANGED <<cfgVars, respVars, reqVars>>

\* Client.clear_session: self._core.clear_session()
ClearSession(t) ==
  /\ pc[t] = "idle"
  /\ nextId <= MaxSessions
  /\ CoreClearSession
  /\ cleared' = Some([id |-> session', swapped |-> FALSE])
  /\ UNCHANGED <<closed, closedAgain, pc, saved, req>>
  /\ UNCHANGED <<cfgVars, respVars, reqVars>>

\* close() without the _closed guard.
Close_Unguarded(t) ==
  /\ pc[t] = "idle"
  /\ closedAgain' = closed
  /\ sessOpen' = [sessOpen EXCEPT ![session] = FALSE]
  /\ closed' = TRUE
  /\ UNCHANGED <<session, cleared, nextId, pc, saved, req>>
  /\ UNCHANGED <<cfgVars, respVars, reqVars>>

\* Client.close: if not self._closed (the client always has _core after
\* __init__): self._core._session.close(); self._closed = True
Close(t) ==
  /\ pc[t] = "idle"
  /\ IF ~closed
       THEN /\ sessOpen' = [sessOpen EXCEPT ![session] = FALSE]
            /\ closed' = TRUE
            /\ UNCHANGED closedAgain
       ELSE /\ closedAgain' = TRUE
            /\ UNCHANGED <<sessOpen, closed>>
  /\ UNCHANGED <<session, cleared, nextId, pc, saved, req>>
  /\ UNCHANGED <<cfgVars, respVars, reqVars>>

ThreadNext(t) ==
  \/ RequestStart(t)
  \/ NetCall(t)
  \/ Return(t)
  \/ EnterScope(t)
  \/ ExitScope(t)
  \/ ClearSession(t)
  \/ Close(t)

Init == CfgIdle /\ RespIdle /\ ReqIdle /\ InitSession

Next == \E t \in Threads : ThreadNext(t)

\* Threads of one process calling into one shared client.
Spec == Init /\ [][Next]_vars

\* One thread using the client.
NextSeq == ThreadNext("t1")

SpecSeq == Init /\ [][NextSeq]_vars

(***************************************************************************)
(* The request pipeline: core/client.py and core/protocol.py               *)
(*                                                                         *)
(* One client with one descriptor makes request() calls one after the      *)
(* other.  A request() call is a sequence of network calls: the            *)
(* certificate probe when a fingerprint is pinned, the request itself,     *)
(* and its reissue with credentials after a challenge.  The device (its    *)
(* challenge, whether it accepts the credentials) is fixed per behaviour;  *)
(* what the transport does to a network call is chosen per call.  netlog   *)
(* lists the network calls of the request() call in progress or last       *)
(* finished, reqOut is what that call gave its caller.                     *)
(***************************************************************************)

\* The exception classes of requests (requests/exceptions.py) and of this
\* package that a network call can end in, each with all its base classes.
Mro(cls) ==
  CASE cls = "ConnectTimeout" ->
         {"ConnectTimeout", "ConnectionError", "Timeout", "RequestException", "OSError"}
    [] cls = "ReadTimeout" -> {"ReadTimeout", "Timeout", "RequestException", "OSError"}
    [] cls = "SSLError" -> {"SSLError", "ConnectionError", "RequestException", "OSError"}
    [] cls = "ConnectionError" -> {"ConnectionError", "RequestException", "OSError"}
    [] cls = "TooManyRedirects" -> {"TooManyRedirects", "RequestException", "OSError"}
    [] cls = "AuthenticationError" -> {"AuthenticationError", "AxisError"}
    [] OTHER -> {cls}

\* isinstance(e, cls), as an except clause tests it
IsInstance(e, cls) == cls \in Mro(e.exc)

\* An exception of the transport; msg is the set of the phrases that occur
\* in str(e), so that  phrase in str(e)  is membership.
TransportExc(cls, phrases) == [exc |-> cls, msg |-> phrases]

Contains(e, phrase) == phrase \in e.msg

AttributeErrorExc == [exc |-> "AttributeError"]

\* TransportResponse.from_response / from_error
TransportResponse_from_response(response) ==
  [tag |-> "returned", obj |-> [raw_response |-> Some(response), error |-> None]]

TransportResponse_from_error(e) ==
  [tag |-> "returned", obj |-> [raw_response |-> None, error |-> Some(e)]]

\* CameraClient._TRANSPORT_HEADERS
TransportHeaders ==
  [n \in {"Accept", "User-Agent", "Content-Type", "Connection", "Accept-Encoding"} |->
     CASE n = "Accept" -> "application/json"
       [] n = "User-Agent" -> "ax-devil-device-api/1.0"
       [] n = "Content-Type" -> "application/json"
       [] n = "Connection" -> "keep-alive"
       [] n = "Accept-Encoding" -> "gzip, deflate"]

\* headers = _TRANSPORT_HEADERS.copy(); headers.update(given)
MergeHeaders(defaults, given) ==
  [n \in DOMAIN defaults \cup DOMAIN given |->
     IF n \in DOMAIN given THEN given[n] ELSE defaults[n]]

\* The two lines together: what is sent, and the class-level table after
\* them.  The update is made on a copy of the table.
HeadersAfterMerge_InPlace(table, given) ==
  [sent |-> MergeHeaders(table, given), table |-> MergeHeaders(table, given)]

HeadersAfterMerge(table, given) ==
  [sent |-> MergeHeaders(table, given), table |-> table]

\* TLS keyword arguments that switch verification off whatever the policy.
ssl_kwargs_Unverified(c) ==
  IF is_secure(c.protocol) /\ c.ssl # None
    THEN [verify |-> Some("False"), cert |-> None]
    ELSE [verify |-> None, cert |-> None]

\* The TLS keyword arguments execute_request resolves from the descriptor:
\* nothing for HTTP or without a TLS policy, else verify and cert.  verify
\* is "True", "False" or the path of a CA bundle.
ssl_kwargs(c) ==
  IF is_secure(c.protocol) /\ c.ssl # None
    THEN LET ssl == c.ssl[1]
         IN [verify |-> IF ssl.verify
                          THEN IF ssl.ca_cert_path # None
                                 THEN Some(ssl.ca_cert_path[1]) ELSE Some("True")
                          ELSE Some("False"),
             cert |-> IF ssl.client_cert_path # None
                        THEN IF ssl.client_key_path # None
                               THEN Some(<<ssl.client_cert_path[1], ssl.client_key_path[1]>>)
                               ELSE Some(ssl.client_cert_path[1])
                        ELSE None]
    ELSE [verify |-> None, cert |-> None]

\* if self.config.ssl.expected_fingerprint: inside the HTTPS branch
Pinned(c) ==
  is_secure(c.protocol) /\ c.ssl # None /\ c.ssl[1].expected_fingerprint # None

\* An execute_request that switches verification off for the probe on the
\* descriptor itself instead of in the probe's own arguments.
ConfigAfterExecute_ProbeDisablesVerify(c) ==
  IF Pinned(c) THEN [c EXCEPT !.ssl = Some([c.ssl[1] EXCEPT !.verify = FALSE])] ELSE c

\* The descriptor after execute_request resolved the TLS arguments from
\* it: self.config is only read, the resolved values go to the local
\* dictionary ssl_kwargs and to the probe's own keyword arguments.
ConfigAfterExecute(c) == c

\* The except clauses of execute_request, in their order: SSLError, then
\* ConnectionError; anything else passes through.
ExecuteCatch(c, e) ==
  IF IsInstance(e, "SSLError")
    THEN IF c.protocol = "https"
           THEN IF Contains(e, "CERTIFICATE_VERIFY_FAILED")
                  THEN TransportResponse_from_error(SecurityError(
                         <<"ssl_verification_failed", "SSL certificate verification failed">>))
                  ELSE TransportResponse_from_error(SecurityError(<<"ssl_error", e.msg>>))
           ELSE TransportResponse_from_error(SecurityError(
                  <<"protocol_error", <<"SSL error with non-HTTPS protocol: ", e.msg>>>>))
    ELSE IF IsInstance(e, "ConnectionError")
      THEN IF Contains(e, "Connection refused")
             THEN TransportResponse_from_error(NetworkError(
                    <<"connection_refused", "Connection refused by remote host">>))
             ELSE TransportResponse_from_error(NetworkError(<<"connection_error", e.msg>>))
      ELSE Raised(e)

\* CameraClient.request without its except AuthenticationError clause.
ClientCatch_NoAuthClause(out) ==
  IF out.tag # "raised" THEN out
  ELSE IF IsInstance(out.exc, "Timeout")
    THEN TransportResponse_from_error(NetworkError(
           <<"request_timeout", "Request timed out after {timeout}s">>))
    ELSE IF IsInstance(out.exc, "RequestException")
      THEN TransportResponse_from_error(NetworkError(<<"request_failed", out.exc.msg>>))
      ELSE out

\* The except clauses of CameraClient.request around execute_request:
\* AuthenticationError, Timeout, RequestException; anything else passes
\* through to the caller.
ClientCatch(out) ==
  IF out.tag # "raised" THEN out
  ELSE IF IsInstance(out.exc, "AuthenticationError")
    THEN TransportResponse_from_error(out.exc)
    ELSE IF IsInstance(out.exc, "Timeout")
      THEN TransportResponse_from_error(NetworkError(
             <<"request_timeout", "Request timed out after {timeout}s">>))
      ELSE IF IsInstance(out.exc, "RequestException")
        THEN TransportResponse_from_error(NetworkError(<<"request_failed", out.exc.msg>>))
        ELSE out

\* What request() gives its caller when exception e is raised under
\* execute_request.
Escalate(c, e) == ClientCatch(ExecuteCatch(c, e))

\* What the device answers to a network call that reaches it: 200 when it
\* asks for no authentication or gets accepted credentials of the scheme
\* it asks for, else 401 with its challenge in WWW-Authenticate.
Respond(srv, auth) ==
  IF srv.challenge = "none" \/ (auth = srv.challenge /\ srv.accepts)
    THEN [status |-> 200, challenge |-> None]
    ELSE [status |-> 401, challenge |-> Some(srv.challenge)]

\* An auth handler that never looks at the cached scheme.
AuthFor_Unresolved(c, cache) ==
  IF c.auth_method # "auto" THEN c.auth_method ELSE "none"

\* The scheme the auth handler applies to the first network call: the
\* descriptor's explicit scheme, or for AUTO the cached scheme, or none
\* while AUTO is unresolved.
AuthFor(c, cache) ==
  IF c.auth_method # "auto" THEN c.auth_method
  ELSE IF cache # None THEN cache[1] ELSE "none"

AuthenticationFailed ==
  AuthenticationError(<<"authentication_failed", "Authentication failed">>)

\* Descriptors a client can hold: the ones whose construction succeeds.
ReqConfigs ==
  {r.config : r \in
     {x \in {PostInit("https", None, a, ssl, FALSE) : a \in AuthMethods, ssl \in SSLInputs}
            \cup {PostInit("http", None, a, ssl, TRUE) :
                    a \in AuthMethods,
                    ssl \in {None, Some(SSLConfig(TRUE, None, None, None, Some("SHA256:cd34")))}}
        : x.tag = "ok"}}

Servers == [challenge : {"none", "basic", "digest"}, accepts : BOOLEAN]

\* The fingerprint get_cert_fingerprint computes for the device's certificate:
\* "SHA256:" and lower-case hexadecimal digits.
ServerFingerprint == "SHA256:ab12"

HeaderInputs ==
  {<< >>, [n \in {"Accept"} |-> "text/plain"], [n \in {"X-Request-Id"} |-> "r1"]}

\* Exceptions a network call can end in.  A failed certificate verification
\* reads "[SSL: CERTIFICATE_VERIFY_FAILED] certificate verify failed" from
\* the ssl module and "bad handshake: ... certificate verify failed" from
\* pyOpenSSL.  The files named by ca_cert_path and client_cert_path are
\* looked up when the call is made.
ConnectFaults ==
  {TransportExc("SSLError", {"CERTIFICATE_VERIFY_FAILED", "certificate verify failed"}),
   TransportExc("SSLError", {"certificate verify failed"}),
   TransportExc("SSLError", {"WRONG_VERSION_NUMBER"}),
   TransportExc("ConnectionError", {"Connection refused"}),
   TransportExc("ConnectionError", {"Connection aborted", "RemoteDisconnected"})}

FileFaults(kw) ==
  IF kw.cert # None \/ (kw.verify # None /\ kw.verify[1] \notin {"True", "False"})
    THEN {TransportExc("OSError", {"Could not find the TLS certificate file"})}
    ELSE {}

TimeoutFaults ==
  {TransportExc("ConnectTimeout", {"timed out"}),
   TransportExc("ReadTimeout", {"Read timed out"})}

RealFaults(c) ==
  ConnectFaults \cup TimeoutFaults \cup FileFaults(ssl_kwargs(c))
    \cup {TransportExc("TooManyRedirects", {"Exceeded 30 redirects"})}

\* The probe is sent with verify=False, so certificate verification cannot
\* fail, and without a timeout, so it cannot time out.
ProbeFaults(c) ==
  {e \in ConnectFaults : ~Contains(e, "CERTIFICATE_VERIFY_FAILED")}
    \cup FileFaults([verify |-> Some("False"), cert |-> ssl_kwargs(c).cert])

\* How a network call ended: the exception raised (exc, msg), or the status
\* of the response; for the probe also what the pin check found.
Answered(status) == [exc |-> "none", msg |-> {}, status |-> status, pin |-> "none"]
Failed(e) == [exc |-> e.exc, msg |-> e.msg, status |-> 0, pin |-> "none"]
Probed(pin) == [exc |-> "none", msg |-> {}, status |-> 0, pin |-> pin]

\* One network call: its keyword arguments and how it ended.
NetEntry(kind, auth, kw, bounded, headers, result) ==
  [kind |-> kind, auth |-> auth, verify |-> kw.verify, cert |-> kw.cert,
   timeout |-> bounded, headers |-> headers, result |-> result]

Finish(out) == reqOut' = out /\ rpc' = "idle"

\* CameraClient.request up to the call of execute_request: URL, headers.
RequestCall ==
  \E given \in HeaderInputs :
    /\ rpc = "idle"
    /\ hdrs' = [given |-> given, sent |-> HeadersAfterMerge(hdrTable, given).sent]
    /\ hdrTable' = HeadersAfterMerge(hdrTable, given).table
    /\ netlog' = << >>
    /\ reqOut' = NoResult
    /\ rpc' = IF Pinned(cfg) THEN "probe" ELSE "send"
    /\ UNCHANGED <<cfg, server, authCache, threadReq>>
    /\ UNCHANGED <<cfgVars, respVars, sessVars>>

\* How the probe can end: the response's connection may have been released
\* (None), the connection may have no socket, or the socket is live; the call
\* may raise; without a timeout it may never return.
ProbeOutcomes(c) ==
  {[how |-> h, e |-> TransportExc("none", {})] :
     h \in {"sock", "no_sock", "no_connection", "hang"}}
    \cup {[how |-> "raise", e |-> x] : x \in ProbeFaults(c)}

\* execute_request, certificate pinning: requests.get(base_url + "/",
\* verify=False, cert=...), then the comparison of the peer certificate's
\* fingerprint with the expected one.
Probe ==
  \E out \in ProbeOutcomes(cfg) :
      LET o == out.how
          e == out.e
          expected == cfg.ssl[1].expected_fingerprint[1]
          result == CASE o = "raise" -> Failed(e)
                      [] o = "hang" -> Probed("hang")
                      [] o = "no_connection" -> Probed("no_connection")
                      [] o = "no_sock" -> Probed("no_sock")
                      [] o = "sock" -> Probed(IF ServerFingerprint # expected
                                                THEN "mismatch" ELSE "match")
      IN
      /\ rpc = "probe"
      /\ netlog' = Append(netlog,
                     NetEntry("probe", "none",
                              [verify |-> Some("False"), cert |-> ssl_kwargs(cfg).cert],
                              FALSE, << >>, result))
      /\ CASE o = "hang" -> rpc' = "hung" /\ UNCHANGED reqOut
           [] o = "raise" -> Finish(Escalate(cfg, e))
           [] o = "no_connection" -> Finish(Escalate(cfg, AttributeErrorExc))
           [] o = "no_sock" -> rpc' = "send" /\ UNCHANGED reqOut
           [] o = "sock" ->
                IF ServerFingerprint # expected
                  THEN Finish(TransportResponse_from_error(SecurityError(
                         <<"cert_fingerprint_mismatch",
                           <<"Certificate fingerprint mismatch. Expected: ",
                             expected, ", Got: ", ServerFingerprint>>>>)))
                  ELSE rpc' = "send" /\ UNCHANGED reqOut
      /\ cfg' = ConfigAfterExecute(cfg)
      /\ UNCHANGED <<server, authCache, hdrTable, hdrs, threadReq>>
      /\ UNCHANGED <<cfgVars, respVars, sessVars>>

\* A real call that is made once more after a timeout or a connection
\* error, as a transport adapter with retries would.
RealCall_RetriesOnFailure(auth, reissued) ==
  \E f \in {None} \cup {Some(e) : e \in RealFaults(cfg)} :
    LET r == Respond(server, auth)
        result == IF f # None THEN Failed(f[1]) ELSE Answered(r.status)
        again == /\ f # None
                 /\ IsInstance(f[1], "Timeout") \/ IsInstance(f[1], "ConnectionError")
                 /\ \A i \in DOMAIN netlog :
                      netlog[i].kind = "real" => netlog[i].result.exc = "none"
    IN
    /\ netlog' = Append(netlog,
                   NetEntry("real", auth, ssl_kwargs(cfg), TRUE, hdrs.sent, result))
    /\ IF again
         THEN UNCHANGED <<rpc, reqOut, authCache>>
         ELSE IF f # None
           THEN Finish(Escalate(cfg, f[1])) /\ UNCHANGED authCache
           ELSE IF r.status = 401 /\ auth = "none" /\ ~reissued
             THEN /\ authCache' = r.challenge
                  /\ rpc' = "reissue"
                  /\ UNCHANGED reqOut
             ELSE IF r.status = 401
               THEN Finish(Escalate(cfg, AuthenticationFailed)) /\ UNCHANGED authCache
               ELSE Finish(TransportResponse_from_response(r)) /\ UNCHANGED authCache

\* One network call of the request itself, made by make_request with the
\* descriptor's timeout and the resolved TLS arguments, and what the auth
\* handler does with its outcome.
RealCall(auth, reissued) ==
  \E f \in {None} \cup {Some(e) : e \in RealFaults(cfg)} :
    LET r == Respond(server, auth)
        result == IF f # None THEN Failed(f[1]) ELSE Answered(r.status)
    IN
    /\ netlog' = Append(netlog,
                   NetEntry("real", auth, ssl_kwargs(cfg), TRUE, hdrs.sent, result))
    /\ IF f # None
         THEN Finish(Escalate(cfg, f[1])) /\ UNCHANGED authCache
         ELSE IF r.status = 401 /\ auth = "none" /\ ~reissued
           THEN /\ authCache' = r.challenge
                /\ rpc' = "reissue"
                /\ UNCHANGED reqOut
           ELSE IF r.status = 401
             THEN Finish(Escalate(cfg, AuthenticationFailed)) /\ UNCHANGED authCache
             ELSE Finish(TransportResponse_from_response(r)) /\ UNCHANGED authCache

\* request_func(**ssl_kwargs): the auth handler's first call.
Send ==
  /\ rpc = "send"
  /\ RealCall(AuthFor(cfg, authCache), FALSE)
  /\ cfg' = ConfigAfterExecute(cfg)
  /\ UNCHANGED <<server, hdrTable, hdrs, threadReq>>
  /\ UNCHANGED <<cfgVars, respVars, sessVars>>

\* The auth handler's second call, with credentials of the scheme the device
\* challenged with.
Reissue ==
  /\ rpc = "reissue"
  /\ RealCall(authCache[1], TRUE)
  /\ UNCHANGED <<cfg, server, hdrTable, hdrs, threadReq>>
  /\ UNCHANGED <<cfgVars, respVars, sessVars>>

InitRequest ==
  /\ CfgIdle /\ RespIdle /\ SessIdle
  /\ cfg \in ReqConfigs
  /\ server \in Servers
  /\ authCache = None
  /\ rpc = "idle"
  /\ hdrTable = TransportHeaders
  /\ hdrs = [given |-> << >>, sent |-> << >>]
  /\ reqOut = NoResult
  /\ netlog = << >>
  /\ threadReq = << >>

NextRequest == RequestCall \/ Probe \/ Send \/ Reissue

SpecRequest == InitRequest /\ [][NextRequest]_vars

\* C1: request() gives its caller a response wrapper, whatever is raised
\* under it; no exception leaves request().
C1_NeverRaises == reqOut.tag # "raised"

(***************************************************************************)
(* Requests of several threads on one client                               *)
(*                                                                         *)
(* The threads share the client's descriptor and the auth handler's cached *)
(* scheme; each request() call has its own headers, TLS arguments and      *)
(* response.  A network call is two steps, sending and receiving, so that  *)
(* calls of different threads overlap: the scheme a call carries is read   *)
(* from the cache when the call is sent, the cache is written when its     *)
(* challenge arrives.  The device answers every call; the descriptors are  *)
(* the ones without a pinned fingerprint.  threadReq[t] is the request()   *)
(* call of thread t: where it stands, the scheme of the call in flight,    *)
(* the calls answered so far and what request() gave the caller.           *)
(***************************************************************************)

NoThreadRequest == [pc |-> "idle", auth |-> "none", calls |-> << >>, out |-> NoResult]

\* An auth handler that tells a challenge from a rejection by the cached
\* scheme instead of by what the answered call carried.
AfterResponse_ReadsCache(cache, auth, status) ==
  IF status # 401 THEN "ok"
  ELSE IF cache = None THEN "reissue" ELSE "fail"

\* What the auth handler does with the answer to the first call: a 401 to
\* a call without credentials is a challenge, answered by one reissue with
\* credentials; a 401 to a call with credentials is a rejection.
AfterResponse(cache, auth, status) ==
  IF status # 401 THEN "ok"
  ELSE IF auth = "none" THEN "reissue" ELSE "fail"

\* CameraClient.request is entered by thread t.
ThreadRequestCall(t) ==
  /\ threadReq[t].pc = "idle"
  /\ threadReq' = [threadReq EXCEPT ![t] =
                     [pc |-> "send", auth |-> "none", calls |-> << >>, out |-> NoResult]]
  /\ UNCHANGED <<cfg, server, authCache, rpc, hdrTable, hdrs, reqOut, netlog>>
  /\ UNCHANGED <<cfgVars, respVars, sessVars>>

\* The first call goes out with the scheme the handler finds at that moment.
ThreadSend(t) ==
  /\ threadReq[t].pc = "send"
  /\ threadReq' = [threadReq EXCEPT ![t].pc = "wait",
                                    ![t].auth = AuthFor(cfg, authCache)]
  /\ UNCHANGED <<cfg, server, authCache, rpc, hdrTable, hdrs, reqOut, netlog>>
  /\ UNCHANGED <<cfgVars, respVars, sessVars>>

\* The answer to the first call arrives.
ThreadReceive(t) ==
  LET auth == threadReq[t].auth
      r == Respond(server, auth)
      calls == Append(threadReq[t].calls, [auth |-> auth, status |-> r.status])
      todo == AfterResponse(authCache, auth, r.status)
  IN
  /\ threadReq[t].pc = "wait"
  /\ CASE todo = "reissue" ->
            /\ authCache' = r.challenge
            /\ threadReq' = [threadReq EXCEPT ![t].pc = "reissue", ![t].calls = calls]
       [] todo = "fail" ->
            /\ threadReq' = [threadReq EXCEPT ![t].pc = "idle", ![t].calls = calls,
                               ![t].out = Escalate(cfg, AuthenticationFailed)]
            /\ UNCHANGED authCache
       [] todo = "ok" ->
            /\ threadReq' = [threadReq EXCEPT ![t].pc = "idle", ![t].calls = calls,
                               ![t].out = TransportResponse_from_response(r)]
            /\ UNCHANGED authCache
  /\ UNCHANGED <<cfg, server, rpc, hdrTable, hdrs, reqOut, netlog>>
  /\ UNCHANGED <<cfgVars, respVars, sessVars>>

\* The reissue with credentials of the cached scheme, and its answer.
ThreadReissue(t) ==
  LET auth == authCache[1]
      r == Respond(server, auth)
      calls == Append(threadReq[t].calls, [auth |-> auth, status |-> r.status])
  IN
  /\ threadReq[t].pc = "reissue"
  /\ threadReq' = [threadReq EXCEPT ![t].pc = "idle", ![t].auth = auth, ![t].calls = calls,
                     ![t].out = IF r.status = 401
                                  THEN Escalate(cfg, AuthenticationFailed)
                                  ELSE TransportResponse_from_response(r)]
  /\ UNCHANGED <<cfg, server, authCache, rpc, hdrTable, hdrs, reqOut, netlog>>
  /\ UNCHANGED <<cfgVars, respVars, sessVars>>

InitThreads ==
  /\ CfgIdle /\ RespIdle /\ SessIdle
  /\ cfg \in {c \in ReqConfigs : ~Pinned(c)}
  /\ server \in Servers
  /\ authCache = None
  /\ rpc = "idle" /\ hdrTable = << >> /\ hdrs = << >>
  /\ reqOut = NoResult /\ netlog = << >>
  /\ threadReq = [t \in Threads |-> NoThreadRequest]

NextThreads ==
  \E t \in Threads :
    \/ ThreadRequestCall(t)
    \/ ThreadSend(t)
    \/ ThreadReceive(t)
    \/ ThreadReissue(t)

SpecThreads == InitThreads /\ [][NextThreads]_vars

(***************************************************************************)
(* Properties of the request pipeline                                      *)
(***************************************************************************)

RealCalls == {i \in DOMAIN netlog : netlog[i].kind = "real"}

\* request() has returned a wrapper / a wrapper that carries an error
Returned == rpc = "idle" /\ reqOut.tag = "returned"
ReturnedError == Returned /\ reqOut.obj.error # None

ExpectedFingerprint == cfg.ssl[1].expected_fingerprint[1]

\* The error codes a failing probe call is classified to.
ProbeFailureCodes == {"ssl_verification_failed", "ssl_error", "connection_refused",
                      "connection_error"}

\* C11: with a fingerprint pinned, a device whose certificate has another
\* fingerprint gets no real request, and a request that reached the device
\* ends in SecurityError cert_fingerprint_mismatch; with the pin equal to
\* the device's fingerprint the request is not refused for the pin and ends
\* in the answer to the real request.
C11_PinDecides ==
  Pinned(cfg) =>
    /\ reqOut.tag # "raised"
    /\ ExpectedFingerprint # ServerFingerprint =>
         /\ RealCalls = {}
         /\ Returned =>
              /\ reqOut.obj.error # None
              /\ reqOut.obj.error[1].exc = "SecurityError" \/ reqOut.obj.error[1].exc = "NetworkError"
              /\ reqOut.obj.error[1].code
                   \in {"cert_fingerprint_mismatch"} \cup ProbeFailureCodes
              /\ netlog[1].result.exc = "none"
                   => reqOut.obj.error[1].code = "cert_fingerprint_mismatch"
    /\ ExpectedFingerprint = ServerFingerprint =>
         /\ ReturnedError => reqOut.obj.error[1].code # "cert_fingerprint_mismatch"
         /\ (Returned /\ netlog[1].result.exc = "none") => RealCalls # {}

LastCall == netlog[Len(netlog)]

\* C12: with AUTO and a challenging device, a request makes at most two
\* real calls, the first without credentials only while no scheme is cached;
\* the challenge is cached as the device's scheme, every call made with a
\* cached scheme carries credentials of that scheme, and when the device
\* accepts the credentials the answered request is a success.
C12_AutoConverges ==
  [][(cfg.auth_method = "auto" /\ server.challenge # "none") =>
       /\ Cardinality(RealCalls') <= 2
       /\ authCache' # None => authCache' = Some(server.challenge)
       /\ (Len(netlog') = Len(netlog) + 1 /\ LastCall'.kind = "real") =>
            /\ authCache # None => LastCall'.auth = authCache[1]
            /\ authCache = None => LastCall'.auth = "none"
            /\ (LastCall'.result.status = 401 /\ LastCall'.auth = "none")
                 => authCache' = Some(server.challenge) /\ rpc' = "reissue"
            /\ (server.accepts /\ LastCall'.result.exc = "none" /\ LastCall'.auth # "none")
                 => /\ Returned' /\ reqOut'.obj.error = None
                    /\ reqOut'.obj.raw_response[1].status = 200
    ]_vars

\* A later request on a client whose scheme is resolved: one real call, with
\* credentials, answered 200.
C12_Witness ==
  /\ cfg.auth_method = "auto" /\ server.challenge = "digest"
  /\ authCache = Some("digest")
  /\ Returned /\ reqOut.obj.error = None
  /\ Cardinality(RealCalls) = 1
  /\ LastCall.kind = "real" /\ LastCall.auth = "digest"

\* C13: a 401 to a call with credentials ends the request in a wrapper whose
\* error is AuthenticationError authentication_failed; a request makes at
\* most two real calls and at most one of them with credentials, and no 401
\* is handed to the caller as a response.
C13_NoChallengeLoop ==
  /\ Cardinality(RealCalls) <= Len(NetCalls)
  /\ Cardinality({i \in RealCalls : netlog[i].auth # "none"}) <= 1
  /\ \A i \in RealCalls :
       (netlog[i].result.status = 401 /\ netlog[i].auth # "none")
         => /\ i = Len(netlog)
            /\ rpc = "idle"
            /\ reqOut = TransportResponse_from_error(AuthenticationFailed)
            /\ reqOut.obj.error[1].exc = "AuthenticationError"
            /\ reqOut.obj.error[1].code = "authentication_failed"
  /\ reqOut.tag = "raised" => reqOut.exc.exc # "AuthenticationError"
  /\ (Returned /\ reqOut.obj.raw_response # None)
       => reqOut.obj.raw_response[1].status # 401

\* AUTO against a device that rejects the credentials: the probe, the
\* reissue, then authentication_failed.
C13_Witness ==
  /\ cfg.auth_method = "auto" /\ ~server.accepts
  /\ Cardinality(RealCalls) = 2
  /\ LastCall.result.status = 401 /\ LastCall.auth # "none"
  /\ ReturnedError /\ reqOut.obj.error[1].code = "authentication_failed"

RaisedBy(i, cls) == cls \in Mro(netlog[i].result.exc)

\* C14: a real call that ends in a connect timeout or a read timeout ends
\* the request in NetworkError request_timeout.
C14_TimeoutCode ==
  \A i \in RealCalls :
    RaisedBy(i, "Timeout")
      => /\ ReturnedError
         /\ reqOut.obj.error[1].exc = "NetworkError"
         /\ reqOut.obj.error[1].code = "request_timeout"

\* C15: the connection is accepted and closed without a response (requests
\* raises ConnectionError for RemoteDisconnected): the request ends in
\* NetworkError request_failed.
C15_ClosedWithoutResponse ==
  \A i \in RealCalls :
    (netlog[i].result.exc = "ConnectionError" /\ "RemoteDisconnected" \in netlog[i].result.msg)
      => /\ ReturnedError
         /\ reqOut.obj.error[1].exc = "NetworkError"
         /\ reqOut.obj.error[1].code = "request_failed"

\* The phrase in lower case, for the phrases that occur in the messages.
LowerCase(phrase) == IF phrase = "Connection refused" THEN "connection refused" ELSE phrase

\* The message of call i contains the phrase, letter case aside.
Mentions(i, phrase) ==
  \E q \in netlog[i].result.msg : LowerCase(q) = LowerCase(phrase)

\* The code the classification table gives the failure of call i: TLS
\* failures by protocol and message, connection failures by message.
TableCode(i) ==
  IF RaisedBy(i, "SSLError")
    THEN IF cfg.protocol # "https" THEN "protocol_error"
         ELSE IF Mentions(i, "certificate verify failed") THEN "ssl_verification_failed"
         ELSE "ssl_error"
    ELSE IF Mentions(i, "connection refused") THEN "connection_refused"
         ELSE "connection_error"

\* C16: a network call that fails in TLS or at the connection (timeouts
\* aside) ends the request in the error code of the classification table.
C16_Classification ==
  \A i \in DOMAIN netlog :
    (RaisedBy(i, "ConnectionError") /\ ~RaisedBy(i, "Timeout"))
      => /\ ReturnedError
         /\ reqOut.obj.error[1].code = TableCode(i)
         /\ reqOut.obj.error[1].exc =
              IF RaisedBy(i, "SSLError") THEN "SecurityError" ELSE "NetworkError"

\* The verify argument the trust precedence asks for: with a pin the pin
\* alone decides, so the transport does not verify; else the CA bundle when
\* one is set; else the default trust store unless verification is off.
PrecedenceVerify(c) ==
  LET ssl == c.ssl[1]
  IN IF ssl.expected_fingerprint # None THEN Some("False")
     ELSE IF ssl.ca_cert_path # None THEN Some(ssl.ca_cert_path[1])
     ELSE IF ssl.verify THEN Some("True")
     ELSE Some("False")

\* C17: the real call is made under the highest-ranked configured trust
\* mode alone: pin, then CA bundle, then default store, then none; with a
\* pin, a matched probe is what admits it.
C17_TrustPrecedence ==
  (is_secure(cfg.protocol) /\ cfg.ssl # None) =>
    \A i \in RealCalls :
      /\ netlog[i].verify = PrecedenceVerify(cfg)
      /\ Pinned(cfg) => netlog[1].kind = "probe" /\ netlog[1].result.pin = "match"

\* C18: a real call carries the transport headers overridden by the
\* caller's headers, and the class-level table stays as defined.
C18_HeadersMerged ==
  /\ hdrTable = TransportHeaders
  /\ \A i \in RealCalls :
       LET sent == netlog[i].headers
       IN /\ DOMAIN sent = DOMAIN TransportHeaders \cup DOMAIN hdrs.given
          /\ \A n \in DOMAIN hdrs.given : sent[n] = hdrs.given[n]
          /\ \A n \in DOMAIN TransportHeaders \ DOMAIN hdrs.given :
               sent[n] = TransportHeaders[n]

\* A later request (the scheme was resolved by an earlier one) that
\* overrides Accept: its call carries the caller's Accept and the default of
\* the other headers.
C18_Witness ==
  /\ cfg.auth_method = "auto" /\ authCache # None
  /\ Cardinality(RealCalls) = 1 /\ LastCall.kind = "real" /\ LastCall.auth # "none"
  /\ hdrs.given = [n \in {"Accept"} |-> "text/plain"]
  /\ LastCall.headers["Accept"] = "text/plain"
  /\ LastCall.headers["User-Agent"] = "ax-devil-device-api/1.0"

C20_ProbeBeforeCredentials ==
  Pinned(cfg) =>
    /\ (rpc \in {"send", "reissue"} \/ RealCalls # {})
         => netlog # << >> /\ netlog[1].kind = "probe"
    /\ \A i \in DOMAIN netlog : netlog[i].kind = "probe" => netlog[i].auth = "none"
    /\ \A i \in RealCalls :
         netlog[i].auth # "none" => netlog[1].result.pin = "match"

\* The probes of the request() call whose pin check compared a certificate
\* and found the expected fingerprint.
MatchedProbes ==
  {i \in DOMAIN netlog : netlog[i].kind = "probe" /\ netlog[i].result.pin = "match"}

\* C21: with expected_fingerprint set, every real call comes after a probe
\* of the same request() call that obtained the peer certificate and found
\* its fingerprint equal to the expected one; after a probe whose response
\* has no live socket the request is neither sent nor about to be sent.
C21_NoCertificateNoRequest ==
  Pinned(cfg) =>
    /\ \A i \in RealCalls : \E j \in MatchedProbes : j < i
    /\ rpc \in {"send", "reissue"} => MatchedProbes # {}
    /\ \A j \in DOMAIN netlog :
         (netlog[j].kind = "probe" /\ netlog[j].result.pin = "no_sock")
           => /\ RealCalls = {}
              /\ rpc \notin {"send", "reissue"}

\* C24: every network call of a request() call, the probe and the real
\* request alike, is made with the descriptor's timeout, so that no
\* request() call is left waiting for ever on a device that never answers:
\* a call that got no answer in time ends in a wrapper with a typed error.
C24_EveryCallBounded ==
  /\ \A i \in DOMAIN netlog : netlog[i].timeout
  /\ rpc # "hung"
  /\ \A i \in DOMAIN netlog :
       (RaisedBy(i, "Timeout") /\ rpc = "idle")
         => ReturnedError /\ IsAxisError(reqOut.obj.error[1])

\* A fingerprint with its letters in lower case, for the fingerprints of
\* FingerprintInputs.
CaseFold(fp) == IF fp = "SHA256:AB12" THEN "SHA256:ab12" ELSE fp

\* C25: the pin check compares letter case aside: a probe that read the
\* peer certificate accepts it exactly when the expected and the computed
\* fingerprint are equal up to letter case, and then the request proceeds
\* instead of ending in cert_fingerprint_mismatch.
C25_PinCaseInsensitive ==
  Pinned(cfg) =>
    \A i \in DOMAIN netlog :
      (netlog[i].kind = "probe" /\ netlog[i].result.pin \in {"match", "mismatch"})
        => /\ netlog[i].result.pin = "match"
                <=> CaseFold(ExpectedFingerprint) = CaseFold(ServerFingerprint)
           /\ CaseFold(ExpectedFingerprint) = CaseFold(ServerFingerprint)
                => /\ i = Len(netlog) => rpc = "send"
                   /\ ReturnedError
                        => reqOut.obj.error[1].code # "cert_fingerprint_mismatch"

\* The values held in the details map of an error.
DetailValues(e) == {e.details[k] : k \in DOMAIN e.details}

\* C26: an error with code cert_fingerprint_mismatch that request() hands
\* back holds the expected and the computed fingerprint among the values of
\* its details map.
C26_MismatchDetails ==
  (ReturnedError /\ reqOut.obj.error[1].code = "cert_fingerprint_mismatch")
    => {ExpectedFingerprint, ServerFingerprint} \subseteq DetailValues(reqOut.obj.error[1])

\* The codes documented for each kind of error; none for FeatureError,
\* which the core never produces.
DocumentedCodes(kind) ==
  CASE kind = "NetworkError" ->
         {"request_timeout", "connection_refused", "connection_error", "request_failed"}
    [] kind = "SecurityError" ->
         {"ssl_error", "ssl_verification_failed", "cert_fingerprint_mismatch",
          "protocol_error"}
    [] kind = "AuthenticationError" -> {"authentication_failed"}
    [] kind = "ConfigurationError" -> {"invalid_port", "http_protocol_requested"}
    [] OTHER -> {}

InVocabulary(e) == IsAxisError(e) /\ e.code \in DocumentedCodes(e.exc)

\* The errors of request(), whatever the descriptor: the error in the
\* wrapper is of a documented kind with one of the kind's codes.
RequestErrorsInVocabulary ==
  ReturnedError => InVocabulary(reqOut.obj.error[1])

\* C27: every error the core produces, the one a refused construction
\* raises and the one request() hands back in its wrapper, is of one of
\* the four kinds with a code from the kind's documented set, and is never
\* a FeatureError.
C27_CodeVocabulary ==
  /\ cfgResult.tag = "raised" => InVocabulary(cfgResult.exc)
  /\ RequestErrorsInVocabulary

\* C28: no step of a request() call (header merge, TLS option resolution,
\* probe, real call, auth negotiation) changes a field of the descriptor
\* the client was built with; the cached scheme changes only in auth
\* negotiation, when an AUTO request without credentials is challenged, and
\* it becomes the scheme of the challenge.
C28_DescriptorImmutable ==
  [][/\ cfg' = cfg
     /\ authCache' # authCache =>
          /\ cfg.auth_method = "auto"
          /\ rpc = "send" /\ rpc' = "reissue"
          /\ LastCall'.kind = "real" /\ LastCall'.auth = "none"
          /\ LastCall'.result.status = 401
          /\ authCache' = Some(server.challenge)
    ]_vars

\* A pinned AUTO request that went through TLS resolution, the probe, the
\* challenge and the reissue.
C28_Witness ==
  /\ Pinned(cfg) /\ cfg.auth_method = "auto"
  /\ cfg \in ReqConfigs
  /\ Returned
  /\ Len(netlog) = 3 /\ netlog[1].kind = "probe"
  /\ authCache = Some(server.challenge)

\* Thread t's request() call has returned.
Finished(t) == threadReq[t].pc = "idle" /\ threadReq[t].out.tag # "none"

\* What a request() call on the device gives when no call of another thread
\* overlaps it: the answer when the device asks for no authentication or
\* accepts the credentials, authentication_failed otherwise.
CorrectResult(t) ==
  LET out == threadReq[t].out
  IN IF server.challenge = "none" \/ (server.accepts /\ cfg.auth_method \in {"auto", server.challenge})
       THEN /\ out.tag = "returned" /\ out.obj.error = None
            /\ out.obj.raw_response[1].status = 200
       ELSE out = TransportResponse_from_error(AuthenticationFailed)

\* C31: with AUTO and threads making requests at the same time on one
\* client, each request makes at most one call without credentials and one
\* reissue, every finished request has the result it would have alone, the
\* cached scheme is never anything but the scheme the device challenges
\* with, and it holds that scheme once a challenged request has finished.
C31_AutoRaceConverges ==
  cfg.auth_method = "auto" =>
    /\ authCache # None => authCache = Some(server.challenge)
    /\ \A t \in Threads :
         /\ Len(threadReq[t].calls) <= Len(NetCalls)
         /\ Finished(t) =>
              /\ CorrectResult(t)
              /\ server.challenge # "none" => authCache = Some(server.challenge)

\* Both threads found the scheme unresolved, both were challenged and both
\* reissued, and both requests succeeded.
C31_Witness ==
  /\ cfg.auth_method = "auto" /\ server.challenge = "digest" /\ server.accepts
  /\ \A t \in Threads :
       /\ Finished(t)
       /\ Len(threadReq[t].calls) = 2
       /\ threadReq[t].calls[1] = [auth |-> "none", status |-> 401]
       /\ threadReq[t].calls[2] = [auth |-> "digest", status |-> 200]
       /\ threadReq[t].out.obj.error = None
  /\ authCache = Some("digest")

\* Call i of the request() call ended in a timeout or a connection error.
FailedToConnect(i) == RaisedBy(i, "Timeout") \/ RaisedBy(i, "ConnectionError")

\* C32: a network call that ended in a timeout or a connection error is the
\* last call of its request() call: request() has returned, with a wrapper
\* whose error is a NetworkError or SecurityError with a documented code;
\* and with an explicit auth scheme a request() call makes at most one real
\* call.
C32_NoRetries ==
  /\ \A i \in DOMAIN netlog :
       FailedToConnect(i) =>
         /\ i = Len(netlog)
         /\ rpc = "idle"
         /\ ReturnedError
         /\ reqOut.obj.error[1].exc \in {"NetworkError", "SecurityError"}
         /\ InVocabulary(reqOut.obj.error[1])
  /\ cfg.auth_method # "auto" => Cardinality(RealCalls) <= 1

\* A request with an explicit scheme whose only real call timed out.
C32_Witness ==
  /\ cfg.auth_method = "basic"
  /\ Cardinality(RealCalls) = 1
  /\ LastCall.kind = "real" /\ RaisedBy(Len(netlog), "ReadTimeout")
  /\ ReturnedError /\ reqOut.obj.error[1].code = "request_timeout"

(***************************************************************************)
(* Properties of the session layer                                         *)
(***************************************************************************)

InnerScope(t) == saved[t][Len(saved[t])]

C4_ClosedIsTerminal ==
  [][closed =>
       /\ \A t \in Threads : pc'[t] = "net" => pc[t] = "net"
       /\ ~sessOpen'[session']
    ]_vars

\* C5: close() on a closed client changes nothing: no session, no flag.
C5_CloseIdempotent ==
  [][((\E t \in Threads : Close(t) /\ closed) \/ (closedAgain' /\ ~closedAgain))
       => /\ closed'
          /\ UNCHANGED <<session, sessOpen, cleared, nextId, pc, saved, req>>
    ]_vars

\* close() was called again after clear_session() had installed an open
\* session, and that session is still open.
C5_Witness == closed /\ closedAgain /\ sessOpen[session]

ClearStep == cleared' # cleared /\ cleared' # None /\ ~cleared'[1].swapped

\* C6 as stated: clear_session() installs a fresh session distinct from the
\* one before, and every request begun later runs on it until the next
\* clear_session().
C6_ClearedUntilNextClear ==
  [][/\ ClearStep
          => /\ session' = cleared'[1].id
             /\ session' # session
             /\ session' \notin DOMAIN sessOpen
             /\ sessOpen'[session']
     /\ \A t \in Threads :
          (pc[t] = "idle" /\ pc'[t] = "net" /\ cleared # None)
            => req'[t].sess = cleared[1].id
    ]_vars

\* C6 amended: ... until the next clear_session() or the next entry to or
\* exit from a new_session() scope.
C6_ClearedUntilNextSwap ==
  [][/\ ClearStep
          => /\ session' = cleared'[1].id
             /\ session' # session
             /\ session' \notin DOMAIN sessOpen
             /\ sessOpen'[session']
     /\ \A t \in Threads :
          (pc[t] = "idle" /\ pc'[t] = "net" /\ cleared # None /\ ~cleared[1].swapped)
            => req'[t].sess = cleared[1].id
    ]_vars

C6_Witness ==
  \E t \in Threads :
    /\ cleared # None /\ ~cleared[1].swapped
    /\ pc[t] = "net"
    /\ req[t].calls >= 1
    /\ req[t].used = {cleared[1].id}

NoScopeActive == \A t \in Threads : saved[t] = << >>

\* C22: while clear_session() has not been called, whenever every
\* new_session() scope that was entered, by whichever thread and in
\* whichever order, has been left, the current session is the session that
\* was current before the first scope was entered (session 0, the one made
\* at construction).
C22_InterleavedScopesRestore ==
  (cleared = None /\ NoScopeActive) => session = 0

\* Thread t leaves a new_session() scope in this step.
LeavesScope(t) == Len(saved'[t]) < Len(saved[t])

\* C23: when close() returns, no session the client created is open, the
\* session set aside by an active new_session() scope included; and when a
\* scope is left on a closed client, the session made current again is not
\* an open one.
C23_CloseReleasesAll ==
  [][/\ (~closed /\ closed') => \A i \in DOMAIN sessOpen' : ~sessOpen'[i]
     /\ \A t \in Threads :
          (closed /\ LeavesScope(t)) => ~sessOpen'[session']
    ]_vars

====
